---- MODULE Spec2Model ----
(***************************************************************************)
(* DeciderCreep (modules/planning/tasks/deciders/decider_creep.cc).        *)
(*                                                                         *)
(* Lengths along the reference line are integers in units of 0.1 m, times  *)
(* are integers in seconds.  The two entry points, Process and             *)
(* CheckCreepDone, are one action each; the planning pipeline that builds  *)
(* the frame and the reference-line context before they are called is the  *)
(* environment.                                                            *)
(***************************************************************************)
EXTENDS Integers, Sequences, FiniteSets, TLC

VARIABLES
    creep_clear_counter_,            \* static uint32_t DeciderCreep::creep_clear_counter_
    config_,                         \* config_.decider_creep_config()
    stop_sign_overlap_id,            \* PlanningContext: current_stop_sign_overlap_id ("" = empty)
    current_traffic_light_overlaps,  \* PlanningContext: ordered list of [object_id, end_s]
    overlaps,                        \* reference_line_info: stop-sign overlaps on the reference line
    adc_end_s,                       \* reference_line_info.AdcSlBoundary().end_s()
    path_length,                     \* reference_line_info.reference_line().Length()
    obstacles,                       \* reference_line_info.path_decision().obstacles().Items()
    decisions,                       \* path_decision longitudinal decisions: set of [tag, id, stop]
    frame_obstacles,                 \* ids of the obstacles the frame holds
    call,                            \* the last call of an entry point: arguments, locals, result
    clear_run,                       \* history: length of the current run of clear samples
    clear_run_far,                   \* history: every sample of the run passed the gate by timeout only
    recent,                          \* history: the latest gate-satisfied samples, oldest first
    ref_build,                       \* history: a stop-wall build kept for comparison
    thread,                          \* concurrent callers of CheckCreepDone: position and locals
    samples                          \* history: the samples taken by the concurrent callers

vars == <<creep_clear_counter_, config_, stop_sign_overlap_id,
          current_traffic_light_overlaps, overlaps, adc_end_s, path_length,
          obstacles, decisions, frame_obstacles, call, clear_run,
          clear_run_far, recent, ref_build, thread, samples>>

(***************************************************************************)
(* Bounds and input sets.                                                  *)
(***************************************************************************)
MaxObstacles == 2          \* perceived obstacles per reference-line context
MaxTrafficLights == 2      \* traffic-light overlaps in the scenario info
MaxSharedCounter == 6      \* largest value concurrent callers store in the counter

\* decider_creep_config: the three relations between min_boundary_t and
\* ignore_max_st_min_t (<, =, >); distances in 0.1 m.
ConfigSet ==
    { [stop_distance |-> 10, max_valid_stop_distance |-> 20,
       min_boundary_t |-> mb, ignore_max_st_min_t |-> im,
       ignore_min_st_min_s |-> 0] :
         <<mb, im>> \in {<<1, 2>>, <<2, 2>>, <<2, 1>>} }

MinTs == {0, 1, 2}         \* st_boundary.min_t, around both time thresholds
MinSs == {0, 1}            \* st_boundary.min_s, at and above ignore_min_st_min_s
BottomLeftSs == {0, 1}     \* bottom_left_point().s(), with bottom_right_point().s() = 0

\* A perceived obstacle.  Dynamic obstacles take every ST boundary; static and
\* virtual ones take the boundary that would block if they were not skipped.
PerceivedObstacles ==
    { [id |-> "", is_virtual |-> FALSE, is_static |-> FALSE, s |-> 0,
       min_t |-> t, min_s |-> ms, bottom_left_s |-> bl, bottom_right_s |-> 0] :
         t \in MinTs, ms \in MinSs, bl \in BottomLeftSs }
    \cup
    { [id |-> "", is_virtual |-> v, is_static |-> st, s |-> 0,
       min_t |-> 0, min_s |-> 0, bottom_left_s |-> 1, bottom_right_s |-> 0] :
         <<v, st>> \in {<<FALSE, TRUE>>, <<TRUE, FALSE>>, <<TRUE, TRUE>>} }

ObstacleIds == <<"o1", "o2", "o3", "o4">>

AdcEndSs == {505, 985, 995}      \* ego front edge: 50 m, 2 m and 1 m before creep_stop_s
StopSignEndSs == {1000}          \* stop_sign_overlap_end_s passed to CheckCreepDone
WaitTimes == {0, 15, 20}         \* wait_time_sec
TimeoutSecs == {15}              \* timeout_sec

\* PlanningContext and reference line, for Process
StopSignIds == {"", "ss1"}       \* current_stop_sign_overlap_id
EndSs == {-10, 0, 1000, 2000}    \* PathOverlap::end_s

TrafficLightIds == <<"tl1", "tl2", "tl3", "tl4">>

\* stop-sign overlaps of the reference line: none, the current one, another
\* one, or the current one behind another
ReferenceLineOverlapLists ==
    {<<>>}
    \cup { <<[object_id |-> id, end_s |-> e]>> : id \in {"ss1", "ss2"}, e \in EndSs }
    \cup { <<[object_id |-> "ss2", end_s |-> 2000], [object_id |-> "ss1", end_s |-> e]>> :
             e \in EndSs }

PathLengths == {1500, 3000}      \* reference_line.Length()

NoCall == [op |-> "none"]

\* no build kept
NoBuild == [stop_line_s |-> 0]

\* two stop-line events whose callers share the static counter
Events == {"A", "B"}

\* a caller outside CheckCreepDone
Idle == [pc |-> "idle", all_far_away |-> FALSE, loaded |-> 0, creep_done |-> FALSE]

NoSamples == [own_run |-> [e \in Events |-> 0], merged_run |-> 0,
              clear_total |-> 0, overlapped |-> FALSE]

(***************************************************************************)
(* DeciderCreep::FindCreepDistance: the fixed 0.5 m.                       *)
(***************************************************************************)
\* mutant: the creep distance grown with the samples counted so far
FindCreepDistance_ByCounter == 5 + creep_clear_counter_

FindCreepDistance == 5

\* creep_clear_counter_ >= 5
CreepClearThreshold == 5

(***************************************************************************)
(* CheckCreepDone, lines 142-171: the scan of the obstacle items, from     *)
(* item i on; the value is all_far_away at the end of the loop.            *)
(***************************************************************************)
\* mutant: the traveled distance compared against -kepsilon
LessThanKepsilon_Negated(x) == x * 100000 < -1

\* kepsilon = 1e-6 m: x (in 0.1 m) < kepsilon
LessThanKepsilon(x) == x * 100000 < 1

IgnoredOnReferenceLine(o, creep_config) ==
    /\ LessThanKepsilon(o.bottom_left_s - o.bottom_right_s)
    /\ o.min_t < creep_config.ignore_max_st_min_t
    /\ o.min_s > creep_config.ignore_min_st_min_s

\* mutant: the scan ends at the first ignored obstacle (break for continue)
RECURSIVE ScanObstacles_BreakOnIgnored(_, _, _)
ScanObstacles_BreakOnIgnored(items, i, creep_config) ==
    IF i > Len(items) THEN TRUE
    ELSE LET o == items[i] IN
         IF o.is_virtual \/ o.is_static
         THEN ScanObstacles_BreakOnIgnored(items, i + 1, creep_config)
         ELSE IF o.min_t < creep_config.min_boundary_t
              THEN IF IgnoredOnReferenceLine(o, creep_config)
                   THEN TRUE
                   ELSE FALSE
              ELSE ScanObstacles_BreakOnIgnored(items, i + 1, creep_config)

\* mutant: virtual and static obstacles examined like the others
RECURSIVE ScanObstacles_NoSkip(_, _, _)
ScanObstacles_NoSkip(items, i, creep_config) ==
    IF i > Len(items) THEN TRUE
    ELSE LET o == items[i] IN
         IF o.min_t < creep_config.min_boundary_t
         THEN IF IgnoredOnReferenceLine(o, creep_config)
              THEN ScanObstacles_NoSkip(items, i + 1, creep_config)
              ELSE FALSE
         ELSE ScanObstacles_NoSkip(items, i + 1, creep_config)

RECURSIVE ScanObstacles(_, _, _)
ScanObstacles(items, i, creep_config) ==
    IF i > Len(items) THEN TRUE
    ELSE LET o == items[i] IN
         IF o.is_virtual \/ o.is_static
         THEN ScanObstacles(items, i + 1, creep_config)
         ELSE IF o.min_t < creep_config.min_boundary_t
              THEN IF IgnoredOnReferenceLine(o, creep_config)
                   THEN ScanObstacles(items, i + 1, creep_config)
                   ELSE FALSE
              ELSE ScanObstacles(items, i + 1, creep_config)

\* mutant: the timeout branch of the gate dropped
GateSatisfied_DistanceOnly(distance, wait_time_sec, timeout_sec, creep_config) ==
    distance < creep_config.max_valid_stop_distance

\* lines 134-140: distance to the creep stop point and the gate
CreepDistanceToGo(stop_sign_overlap_end_s, adc) ==
    (stop_sign_overlap_end_s + FindCreepDistance) - adc

\* mutant: the distance test made inclusive
GateSatisfied_Inclusive(distance, wait_time_sec, timeout_sec, creep_config) ==
    \/ distance <= creep_config.max_valid_stop_distance
    \/ wait_time_sec >= timeout_sec

GateSatisfied(distance, wait_time_sec, timeout_sec, creep_config) ==
    \/ distance < creep_config.max_valid_stop_distance
    \/ wait_time_sec >= timeout_sec

\* mutant: a blocked sample leaves the counter as it is
UpdatedCounter_KeepOnBlocked(counter, all_far_away) ==
    IF all_far_away THEN counter + 1 ELSE counter

\* line 173
UpdatedCounter(counter, all_far_away) ==
    IF all_far_away THEN counter + 1 ELSE 0

\* mutant: no reset on firing
FiredCounter_NoReset(counter) == counter

\* mutant: firing only above the threshold
Fired_AboveThreshold(counter) == counter > CreepClearThreshold

\* mutant: the firing sample counted towards the next report
FiredCounter_ResetToOne(counter) ==
    IF counter >= CreepClearThreshold THEN 1 ELSE counter

\* mutant: firing one sample early
Fired_AtFour(counter) == counter >= CreepClearThreshold - 1

\* lines 174-177: the counter left behind and creep_done
FiredCounter(counter) ==
    IF counter >= CreepClearThreshold THEN 0 ELSE counter

Fired(counter) == counter >= CreepClearThreshold

(***************************************************************************)
(* DeciderCreep::CheckCreepDone(frame, reference_line_info,                *)
(*     stop_sign_overlap_end_s, wait_time_sec, timeout_sec)                *)
(***************************************************************************)
CheckCreepDoneOn(stop_sign_overlap_end_s, wait_time_sec, timeout_sec) ==
      LET distance == CreepDistanceToGo(stop_sign_overlap_end_s, adc_end_s)
          gate == GateSatisfied(distance, wait_time_sec, timeout_sec, config_)
          all_far_away == ScanObstacles(obstacles, 1, config_)
          mid == UpdatedCounter(creep_clear_counter_, all_far_away)
      IN  /\ creep_clear_counter_' =
                IF gate THEN FiredCounter(mid) ELSE creep_clear_counter_
          /\ call' = [op |-> "CheckCreepDone",
                      stop_sign_overlap_end_s |-> stop_sign_overlap_end_s,
                      wait_time_sec |-> wait_time_sec,
                      timeout_sec |-> timeout_sec,
                      distance |-> distance,
                      gate |-> gate,
                      all_far_away |-> gate /\ all_far_away,
                      counter_before |-> creep_clear_counter_,
                      counter_updated |-> IF gate THEN mid ELSE creep_clear_counter_,
                      creep_done |-> gate /\ Fired(mid)]
          \* history: consecutive gate-satisfied clear calls, the first of
          \* them entered with the counter at 0
          /\ clear_run' =
                IF gate /\ all_far_away
                THEN IF creep_clear_counter_ = 0 THEN 1
                     ELSE IF clear_run \in 1..4 THEN clear_run + 1 ELSE 0
                ELSE 0
          /\ clear_run_far' =
                /\ gate /\ all_far_away
                /\ distance >= config_.max_valid_stop_distance
                /\ (creep_clear_counter_ = 0 \/ clear_run_far)
          /\ UNCHANGED <<config_, stop_sign_overlap_id,
                         current_traffic_light_overlaps, overlaps, adc_end_s,
                         path_length, obstacles, decisions, frame_obstacles,
                         ref_build, thread, samples>>

\* the call with every argument the planner may pass
CheckCreepDone ==
    \E stop_sign_overlap_end_s \in StopSignEndSs, wait_time_sec \in WaitTimes,
       timeout_sec \in TimeoutSecs :
      /\ CheckCreepDoneOn(stop_sign_overlap_end_s, wait_time_sec, timeout_sec)
      /\ UNCHANGED recent

\* history: the last n entries of seq
Latest(seq, n) ==
    IF Len(seq) <= n THEN seq ELSE SubSeq(seq, Len(seq) - n + 1, Len(seq))

\* history: the window of gate-satisfied samples after the call c; a call
\* that misses the gate (line 140) takes no sample
Sampled(window, c) ==
    IF c.gate
    THEN Latest(Append(window, [clear |-> c.all_far_away, done |-> c.creep_done]),
                CreepClearThreshold)
    ELSE window

(***************************************************************************)
(* scenario::util::RefreshOverlapOnReferenceLine(reference_line_info,      *)
(* overlap_id, STOP_SIGN): the stop-sign overlap of the reference line     *)
(* with that id, <<>> when there is none (nullptr).                        *)
(***************************************************************************)
RefreshOverlapOnReferenceLine(ovs, overlap_id) ==
    LET found == {i \in 1..Len(ovs) : ovs[i].object_id = overlap_id} IN
      IF found = {} THEN <<>>
      ELSE <<ovs[CHOOSE i \in found : \A j \in found : i <= j]>>

\* mutant: an unresolved stop sign falls back to the traffic lights
StopLineS_FallBack(overlap_id, ovs, traffic_light_overlaps) ==
    LET current_stop_sign_overlap ==
            RefreshOverlapOnReferenceLine(ovs, overlap_id) IN
      IF overlap_id # "" /\ current_stop_sign_overlap # <<>>
      THEN current_stop_sign_overlap[1].end_s
      ELSE IF Len(traffic_light_overlaps) > 0
           THEN traffic_light_overlaps[1].end_s
           ELSE 0

\* mutant: the traffic lights are consulted before the stop sign
StopLineS_TrafficLightFirst(overlap_id, ovs, traffic_light_overlaps) ==
    IF Len(traffic_light_overlaps) > 0
    THEN traffic_light_overlaps[1].end_s
    ELSE LET current_stop_sign_overlap ==
                 RefreshOverlapOnReferenceLine(ovs, overlap_id) IN
           IF overlap_id # "" /\ current_stop_sign_overlap # <<>>
           THEN current_stop_sign_overlap[1].end_s
           ELSE 0

\* mutant: the last traffic-light overlap instead of the first
StopLineS_LastTrafficLight(overlap_id, ovs, traffic_light_overlaps) ==
    IF overlap_id # ""
    THEN LET current_stop_sign_overlap ==
                 RefreshOverlapOnReferenceLine(ovs, overlap_id) IN
           IF current_stop_sign_overlap # <<>>
           THEN current_stop_sign_overlap[1].end_s
           ELSE 0
    ELSE IF Len(traffic_light_overlaps) > 0
         THEN traffic_light_overlaps[Len(traffic_light_overlaps)].end_s
         ELSE 0

(***************************************************************************)
(* Process, lines 48-67: the stop line of this cycle.                      *)
(***************************************************************************)
StopLineS(overlap_id, ovs, traffic_light_overlaps) ==
    IF overlap_id # ""
    THEN LET current_stop_sign_overlap ==
                 RefreshOverlapOnReferenceLine(ovs, overlap_id) IN
           IF current_stop_sign_overlap # <<>>
           THEN current_stop_sign_overlap[1].end_s
           ELSE 0
    ELSE IF Len(traffic_light_overlaps) > 0
         THEN traffic_light_overlaps[1].end_s
         ELSE 0

\* mutant: a stop line at 0 builds too
ShouldBuildStop_NonNegative(stop_line_s) == stop_line_s >= 0

\* line 68
ShouldBuildStop(stop_line_s) == stop_line_s > 0

(***************************************************************************)
(* Collaborators of BuildStopDecision.                                     *)
(***************************************************************************)
\* CREEP_VO_ID_PREFIX + std::string("SS")
VirtualObstacleId == "CREEP_SS"

\* reference_line.GetReferencePoint(s): a straight path along x, clamped to
\* the ends of the line
GetReferencePoint(length, s) ==
    [x |-> IF s < 0 THEN 0 ELSE IF s > length THEN length ELSE s,
     y |-> 0, heading |-> 0]

\* frame->CreateStopObstacle(reference_line_info, id, s): fails (nullptr) on
\* an id the frame already holds or on s outside the path
CreateStopObstacleOk(held, length, id, obstacle_s) ==
    /\ id \notin held
    /\ obstacle_s >= 0
    /\ obstacle_s <= length

StopObstacle(id, obstacle_s) ==
    [id |-> id, is_virtual |-> TRUE, is_static |-> TRUE, s |-> obstacle_s,
     min_t |-> 0, min_s |-> 0, bottom_left_s |-> 0, bottom_right_s |-> 0]

\* mutant: the stop point taken ahead of the stop wall
StopDecision_AheadOfWall(creep_stop_s, length, creep_config) ==
    LET stop_distance == creep_config.stop_distance
        stop_s == creep_stop_s + stop_distance
        stop_point == GetReferencePoint(length, stop_s)
        stop_heading == GetReferencePoint(length, stop_s).heading
    IN  [reason_code |-> "STOP_REASON_CREEPER",
         distance_s |-> 0 - stop_distance,
         stop_heading |-> stop_heading,
         stop_point |-> [x |-> stop_point.x, y |-> stop_point.y, z |-> 0]]

\* lines 106-119: the stop decision
StopDecision(creep_stop_s, length, creep_config) ==
    LET stop_distance == creep_config.stop_distance
        stop_s == creep_stop_s - stop_distance
        stop_point == GetReferencePoint(length, stop_s)
        stop_heading == GetReferencePoint(length, stop_s).heading
    IN  [reason_code |-> "STOP_REASON_CREEPER",
         distance_s |-> 0 - stop_distance,
         stop_heading |-> stop_heading,
         stop_point |-> [x |-> stop_point.x, y |-> stop_point.y, z |-> 0]]

(***************************************************************************)
(* DeciderCreep::BuildStopDecision(stop_line_s, frame, reference_line_info)*)
(* as the outcome of the build and the frame, obstacle set and decision    *)
(* set it leaves.  register_ok: whether reference_line_info->AddObstacle   *)
(* accepts the created obstacle.                                           *)
(***************************************************************************)
BuildStopDecision(stop_line_s, register_ok) ==
    LET creep_stop_s == stop_line_s + FindCreepDistance
        virtual_obstacle_id == VirtualObstacleId
        created == CreateStopObstacleOk(frame_obstacles, path_length,
                                        virtual_obstacle_id, creep_stop_s)
        stop_wall == StopObstacle(virtual_obstacle_id, creep_stop_s)
    IN  IF ~created
        THEN [result |-> "create_failed", frame_obstacles |-> frame_obstacles,
              obstacles |-> obstacles, decisions |-> decisions]
        ELSE IF ~register_ok
        THEN [result |-> "register_failed",
              frame_obstacles |-> frame_obstacles \cup {virtual_obstacle_id},
              obstacles |-> obstacles, decisions |-> decisions]
        ELSE [result |-> "built",
              frame_obstacles |-> frame_obstacles \cup {virtual_obstacle_id},
              obstacles |-> Append(obstacles, stop_wall),
              decisions |-> decisions \cup
                  {[tag |-> "Creeper", id |-> stop_wall.id,
                    stop |-> StopDecision(creep_stop_s, path_length, config_)]}]

\* mutant: a failed build is returned as an error
ProcessStatus_Propagated(build_result) ==
    IF build_result \in {"create_failed", "register_failed"} THEN "ERROR" ELSE "OK"

\* lines 69-72: the result of BuildStopDecision is dropped
ProcessStatus(build_result) == "OK"

(***************************************************************************)
(* DeciderCreep::Process(frame, reference_line_info)                       *)
(***************************************************************************)
ProcessOn(register_ok) ==
      LET stop_line_s == StopLineS(stop_sign_overlap_id, overlaps,
                                   current_traffic_light_overlaps)
          build == IF ShouldBuildStop(stop_line_s)
                   THEN BuildStopDecision(stop_line_s, register_ok)
                   ELSE [result |-> "skipped", frame_obstacles |-> frame_obstacles,
                         obstacles |-> obstacles, decisions |-> decisions]
      IN  /\ frame_obstacles' = build.frame_obstacles
          /\ obstacles' = build.obstacles
          /\ decisions' = build.decisions
          /\ call' = [op |-> "Process", stop_line_s |-> stop_line_s,
                      build |-> build.result,
                      status |-> ProcessStatus(build.result)]
          /\ UNCHANGED <<creep_clear_counter_, config_, stop_sign_overlap_id,
                         current_traffic_light_overlaps, overlaps, adc_end_s,
                         path_length, clear_run, clear_run_far,
                         recent, thread, samples>>

\* the call with AddObstacle accepting or refusing the stop wall
Process ==
    \E register_ok \in BOOLEAN :
      /\ ProcessOn(register_ok)
      /\ UNCHANGED ref_build

(***************************************************************************)
(* Environment: the scenario sets the planning context; a new planning     *)
(* cycle builds a fresh frame and reference-line context; perception adds  *)
(* obstacles to it.                                                        *)
(***************************************************************************)
SetStopSignOverlapId ==
    \E id \in StopSignIds :
      /\ stop_sign_overlap_id' = id
      /\ call' = NoCall
      /\ UNCHANGED <<creep_clear_counter_, config_,
                     current_traffic_light_overlaps, overlaps, adc_end_s,
                     path_length, obstacles, decisions, frame_obstacles,
                     clear_run, clear_run_far,
                     recent, ref_build, thread, samples>>

AddTrafficLightOverlap ==
    /\ Len(current_traffic_light_overlaps) < MaxTrafficLights
    /\ \E e \in EndSs :
         current_traffic_light_overlaps' =
             Append(current_traffic_light_overlaps,
                    [object_id |-> TrafficLightIds[Len(current_traffic_light_overlaps) + 1],
                     end_s |-> e])
    /\ call' = NoCall
    /\ UNCHANGED <<creep_clear_counter_, config_, stop_sign_overlap_id,
                   overlaps, adc_end_s, path_length, obstacles, decisions,
                   frame_obstacles, clear_run, clear_run_far,
                   recent, ref_build, thread, samples>>

ClearTrafficLightOverlaps ==
    /\ current_traffic_light_overlaps' = <<>>
    /\ call' = NoCall
    /\ UNCHANGED <<creep_clear_counter_, config_, stop_sign_overlap_id,
                   overlaps, adc_end_s, path_length, obstacles, decisions,
                   frame_obstacles, clear_run, clear_run_far,
                   recent, ref_build, thread, samples>>

NewFrameWith(adcs, overlap_lists, lengths) ==
    \E adc \in adcs, ovs \in overlap_lists, length \in lengths :
      /\ adc_end_s' = adc
      /\ overlaps' = ovs
      /\ path_length' = length
      /\ obstacles' = <<>>
      /\ decisions' = {}
      /\ frame_obstacles' = {}
      /\ call' = NoCall
      /\ UNCHANGED <<creep_clear_counter_, config_, stop_sign_overlap_id,
                     current_traffic_light_overlaps, clear_run, clear_run_far,
                     recent, ref_build, thread, samples>>

PerceiveObstacleFrom(universe) ==
    /\ Len(obstacles) < MaxObstacles
    /\ \E o \in universe :
         LET new == [o EXCEPT !.id = ObstacleIds[Len(obstacles) + 1]] IN
           /\ obstacles' = Append(obstacles, new)
           /\ frame_obstacles' = frame_obstacles \cup {new.id}
    /\ call' = NoCall
    /\ UNCHANGED <<creep_clear_counter_, config_, stop_sign_overlap_id,
                   current_traffic_light_overlaps, overlaps, adc_end_s,
                   path_length, decisions, clear_run, clear_run_far,
                   recent, ref_build, thread, samples>>

Init ==
    /\ creep_clear_counter_ = 0
    /\ config_ \in ConfigSet
    /\ stop_sign_overlap_id = ""
    /\ current_traffic_light_overlaps = <<>>
    /\ overlaps = <<>>
    /\ adc_end_s = 995
    /\ path_length = 3000
    /\ obstacles = <<>>
    /\ decisions = {}
    /\ frame_obstacles = {}
    /\ call = NoCall
    /\ clear_run = 0
    /\ clear_run_far = FALSE
    /\ recent = <<>>
    /\ ref_build = NoBuild
    /\ thread = [e \in Events |-> Idle]
    /\ samples = NoSamples

(***************************************************************************)
(* Spec: the clearance query over the frames of successive cycles.         *)
(***************************************************************************)
NewFrame == NewFrameWith(AdcEndSs, {<<>>}, {3000})

PerceiveObstacle == PerceiveObstacleFrom(PerceivedObstacles)

Next ==
    \/ NewFrame
    \/ PerceiveObstacle
    \/ CheckCreepDone

Spec == Init /\ [][Next]_vars

(***************************************************************************)
(* SpecProcess: the per-cycle entry point under every planning context.    *)
(***************************************************************************)
NewFrameProcess == NewFrameWith({995}, ReferenceLineOverlapLists, PathLengths)

PerceiveObstacleProcess ==
    PerceiveObstacleFrom({o \in PerceivedObstacles :
                            ~o.is_virtual /\ ~o.is_static /\ o.min_t = 0
                            /\ o.min_s = 0 /\ o.bottom_left_s = 1})

NextProcess ==
    \/ SetStopSignOverlapId
    \/ AddTrafficLightOverlap
    \/ ClearTrafficLightOverlaps
    \/ NewFrameProcess
    \/ PerceiveObstacleProcess
    \/ Process

SpecProcess == Init /\ [][NextProcess]_vars

(***************************************************************************)
(* SpecDebounce: the clearance query over successive cycles with the       *)
(* window of its latest samples kept.                                      *)
(***************************************************************************)
DebounceAdcEndSs == {505, 995}   \* 50 m and 1 m before creep_stop_s
DebounceWaitTimes == {0, 20}     \* below and above timeout_sec

\* a dynamic obstacle that blocks and one the benign exception ignores
DebounceObstacles ==
    { o \in PerceivedObstacles :
        /\ ~o.is_virtual /\ ~o.is_static /\ o.min_t = 0
        /\ <<o.min_s, o.bottom_left_s>> \in {<<0, 1>>, <<1, 0>>} }

NewFrameDebounce == NewFrameWith(DebounceAdcEndSs, {<<>>}, {3000})

PerceiveObstacleDebounce == PerceiveObstacleFrom(DebounceObstacles)

CheckCreepDoneSampled ==
    \E stop_sign_overlap_end_s \in StopSignEndSs,
       wait_time_sec \in DebounceWaitTimes, timeout_sec \in TimeoutSecs :
      /\ CheckCreepDoneOn(stop_sign_overlap_end_s, wait_time_sec, timeout_sec)
      /\ recent' = Sampled(recent, call')

NextDebounce ==
    \/ NewFrameDebounce
    \/ PerceiveObstacleDebounce
    \/ CheckCreepDoneSampled

SpecDebounce == Init /\ [][NextDebounce]_vars

\* SpecLive: the planner of the creeping stage calls CheckCreepDone in every
\* planning cycle, so the call is never postponed for ever.
SpecLive == Init /\ [][NextDebounce]_vars /\ WF_vars(CheckCreepDoneSampled)

(***************************************************************************)
(* SpecCycle: both entry points in the planning cycles of one stop sign.   *)
(***************************************************************************)
\* the reference line with no stop sign, or with the current one at 100 m or
\* at 200 m
CycleOverlapLists ==
    {<<>>} \cup { <<[object_id |-> "ss1", end_s |-> e]>> : e \in {1000, 2000} }

NewFrameCycle == NewFrameWith({995}, CycleOverlapLists, {3000})

PerceiveObstacleCycle == PerceiveObstacleFrom(DebounceObstacles)

\* an obstacle of the reference-line context that Process did not create
NotStopWall(o) == o.id # VirtualObstacleId

NextCycle ==
    \/ SetStopSignOverlapId
    \/ NewFrameCycle
    \/ PerceiveObstacleCycle
    \/ Process
    \/ CheckCreepDoneSampled

SpecCycle == Init /\ [][NextCycle]_vars

(***************************************************************************)
(* SpecBuild: the same cycles with one stop-wall build kept, to compare    *)
(* the builds of different cycles.                                         *)
(***************************************************************************)
\* history: what the build of the last Process call took and produced
BuildKept ==
    LET stop_wall == obstacles[Len(obstacles)] IN
      [stop_line_s |-> call.stop_line_s,
       path_length |-> path_length,
       creep_config |-> config_,
       counter |-> creep_clear_counter_,
       id |-> stop_wall.id,
       s |-> stop_wall.s,
       stops |-> {d.stop : d \in {e \in decisions : e.id = stop_wall.id}}]

\* Process, with the build it made kept for comparison or not
ProcessKept ==
    \E register_ok \in BOOLEAN, keep \in BOOLEAN :
      /\ ProcessOn(register_ok)
      /\ ref_build' = IF keep /\ call'.build = "built" THEN BuildKept' ELSE ref_build

NextBuild ==
    \/ SetStopSignOverlapId
    \/ NewFrameCycle
    \/ PerceiveObstacleCycle
    \/ ProcessKept
    \/ CheckCreepDone

SpecBuild == Init /\ [][NextBuild]_vars

(***************************************************************************)
(* SpecShared: CheckCreepDone called for two stop-line events, each with   *)
(* its own reference-line context, over the one static counter.  The       *)
(* counter is a plain uint32_t, so the calls of two threads interleave at  *)
(* its reads and writes: the read and the write of line 173, the test of   *)
(* line 174 (on the value re-read or on the value just written, as the     *)
(* build keeps it) and the write of line 175.                              *)
(***************************************************************************)
\* the obstacles of a caller's reference-line context
SharedObstacleLists ==
    {<<>>} \cup { <<[o EXCEPT !.id = ObstacleIds[1]]>> : o \in DebounceObstacles }

Capped(n) == IF n < CreepClearThreshold THEN n + 1 ELSE CreepClearThreshold

\* lines 133-171: the gate and the scan, on the caller's own arguments
EnterCheckCreepDone ==
    \E e \in Events, items \in SharedObstacleLists, adc \in DebounceAdcEndSs,
       stop_sign_overlap_end_s \in StopSignEndSs,
       wait_time_sec \in DebounceWaitTimes, timeout_sec \in TimeoutSecs :
      LET distance == CreepDistanceToGo(stop_sign_overlap_end_s, adc)
          gate == GateSatisfied(distance, wait_time_sec, timeout_sec, config_)
          all_far_away == ScanObstacles(items, 1, config_)
      IN  /\ thread[e].pc = "idle"
          /\ thread' = [thread EXCEPT ![e] =
                IF gate
                THEN [pc |-> IF all_far_away THEN "load" ELSE "store",
                      all_far_away |-> all_far_away, loaded |-> 0,
                      creep_done |-> FALSE]
                ELSE Idle]
          /\ samples' =
                IF gate
                THEN [own_run |-> [samples.own_run EXCEPT ![e] =
                                     IF all_far_away THEN Capped(@) ELSE 0],
                      merged_run |-> IF all_far_away
                                     THEN Capped(samples.merged_run) ELSE 0,
                      clear_total |-> IF all_far_away
                                      THEN Capped(samples.clear_total)
                                      ELSE samples.clear_total,
                      overlapped |-> \/ samples.overlapped
                                     \/ \E f \in Events \ {e} : thread[f].pc # "idle"]
                ELSE samples
          /\ UNCHANGED <<creep_clear_counter_, config_, stop_sign_overlap_id,
                         current_traffic_light_overlaps, overlaps, adc_end_s,
                         path_length, obstacles, decisions, frame_obstacles,
                         call, clear_run, clear_run_far, recent, ref_build>>

\* line 173, the read of creep_clear_counter_ + 1
LoadCounter ==
    \E e \in Events :
      /\ thread[e].pc = "load"
      /\ thread' = [thread EXCEPT ![e].pc = "store",
                                  ![e].loaded = creep_clear_counter_]
      /\ UNCHANGED <<creep_clear_counter_, config_, stop_sign_overlap_id,
                     current_traffic_light_overlaps, overlaps, adc_end_s,
                     path_length, obstacles, decisions, frame_obstacles,
                     call, clear_run, clear_run_far, recent, ref_build, samples>>

\* line 173, the write
StoreCounter ==
    \E e \in Events :
      LET updated == UpdatedCounter(thread[e].loaded, thread[e].all_far_away) IN
        /\ thread[e].pc = "store"
        /\ updated <= MaxSharedCounter
        /\ creep_clear_counter_' = updated
        /\ thread' = [thread EXCEPT ![e].pc = "test", ![e].loaded = updated]
        /\ UNCHANGED <<config_, stop_sign_overlap_id,
                       current_traffic_light_overlaps, overlaps, adc_end_s,
                       path_length, obstacles, decisions, frame_obstacles,
                       call, clear_run, clear_run_far, recent, ref_build, samples>>

\* line 174: the test, and the return of false at line 179
TestCounter ==
    \E e \in Events :
      \E tested \in {creep_clear_counter_, thread[e].loaded} :
        /\ thread[e].pc = "test"
        /\ thread' = [thread EXCEPT ![e] =
              IF Fired(tested)
              THEN [@ EXCEPT !.pc = "reset", !.loaded = tested]
              ELSE Idle]
        /\ UNCHANGED <<creep_clear_counter_, config_, stop_sign_overlap_id,
                       current_traffic_light_overlaps, overlaps, adc_end_s,
                       path_length, obstacles, decisions, frame_obstacles,
                       call, clear_run, clear_run_far, recent, ref_build, samples>>

\* lines 175-179: the reset and the return of true
ResetCounter ==
    \E e \in Events :
      /\ thread[e].pc = "reset"
      /\ creep_clear_counter_' = FiredCounter(thread[e].loaded)
      /\ thread' = [thread EXCEPT ![e] = [Idle EXCEPT !.creep_done = TRUE]]
      /\ samples' = [samples EXCEPT !.merged_run = 0]
      /\ UNCHANGED <<config_, stop_sign_overlap_id,
                     current_traffic_light_overlaps, overlaps, adc_end_s,
                     path_length, obstacles, decisions, frame_obstacles,
                     call, clear_run, clear_run_far, recent, ref_build>>

NextShared ==
    \/ EnterCheckCreepDone
    \/ LoadCounter
    \/ StoreCounter
    \/ TestCounter
    \/ ResetCounter

SpecShared == Init /\ [][NextShared]_vars


(***************************************************************************)
(* Properties of CheckCreepDone, under Spec.                               *)
(***************************************************************************)

\* C1: a run of exactly 5 consecutive gate-satisfied clear samples, entered
\* with the counter at 0, reports creep done on the 5th call and on no earlier
\* one; through the first four calls the counter equals the length of the run
\* (so it never exceeds 4), and it is 0 right after the 5th call.
Theorem_C1 ==
    call.op = "CheckCreepDone" =>
      /\ clear_run \in 1..4 =>
           /\ ~call.creep_done
           /\ call.counter_updated = clear_run
           /\ creep_clear_counter_ = clear_run
      /\ clear_run = 5 =>
           /\ call.creep_done
           /\ creep_clear_counter_ = 0

Witness_C1 ==
    /\ call.op = "CheckCreepDone"
    /\ clear_run = 5
    /\ call.creep_done
    /\ creep_clear_counter_ = 0

\* C2: a gate-satisfied call whose obstacle scan is blocked leaves the counter
\* at 0 and returns false, whatever the counter was before the call.
Theorem_C2 ==
    ( /\ call.op = "CheckCreepDone"
      /\ \/ call.distance < config_.max_valid_stop_distance
         \/ call.wait_time_sec >= call.timeout_sec
      /\ ~ScanObstacles(obstacles, 1, config_) )
    => /\ creep_clear_counter_ = 0
       /\ ~call.creep_done

Witness_C2 ==
    /\ call.op = "CheckCreepDone"
    /\ call.distance < config_.max_valid_stop_distance
    /\ ~ScanObstacles(obstacles, 1, config_)
    /\ call.counter_before = 4
    /\ creep_clear_counter_ = 0

\* C3: a call whose gate is not satisfied (distance_to_go >=
\* max_valid_stop_distance and wait_time_sec < timeout_sec) returns false and
\* leaves the counter as it was, whatever obstacles are present.
Theorem_C3 ==
    ( /\ call.op = "CheckCreepDone"
      /\ (call.stop_sign_overlap_end_s + 5) - adc_end_s
             >= config_.max_valid_stop_distance
      /\ call.wait_time_sec < call.timeout_sec )
    => /\ ~call.creep_done
       /\ creep_clear_counter_ = call.counter_before

Witness_C3 ==
    /\ call.op = "CheckCreepDone"
    /\ (call.stop_sign_overlap_end_s + 5) - adc_end_s
           = config_.max_valid_stop_distance
    /\ call.wait_time_sec < call.timeout_sec
    /\ ~ScanObstacles(obstacles, 1, config_)
    /\ call.counter_before = 3
    /\ creep_clear_counter_ = 3

\* C4: between calls the counter is in {0,1,2,3,4}; within a call the updated
\* counter never exceeds 5, and when it reaches 5 the same call leaves the
\* counter at 0 and returns true.
Theorem_C4 ==
    /\ creep_clear_counter_ \in 0..4
    /\ call.op = "CheckCreepDone" =>
         /\ call.counter_updated \in 0..5
         /\ call.counter_updated = 5 =>
              (creep_clear_counter_ = 0 /\ call.creep_done)

Witness_C4 ==
    /\ call.op = "CheckCreepDone"
    /\ call.counter_updated = 5
    /\ creep_clear_counter_ = 0

\* C9: in a gate-satisfied call, if every obstacle that is neither virtual nor
\* static has traveled_s < 1e-6, min_t < ignore_max_st_min_t and
\* min_s > ignore_min_st_min_s, the sample is clear and the counter is
\* incremented, for every relation between min_boundary_t and
\* ignore_max_st_min_t.
Theorem_C9 ==
    ( /\ call.op = "CheckCreepDone"
      /\ \/ call.distance < config_.max_valid_stop_distance
         \/ call.wait_time_sec >= call.timeout_sec
      /\ \A i \in 1..Len(obstacles) :
           (~obstacles[i].is_virtual /\ ~obstacles[i].is_static) =>
             /\ obstacles[i].bottom_left_s - obstacles[i].bottom_right_s <= 0
             /\ obstacles[i].min_t < config_.ignore_max_st_min_t
             /\ obstacles[i].min_s > config_.ignore_min_st_min_s )
    => /\ call.all_far_away
       /\ call.counter_updated = call.counter_before + 1

Witness_C9 ==
    /\ call.op = "CheckCreepDone"
    /\ call.all_far_away
    /\ call.counter_updated = call.counter_before + 1
    /\ config_.min_boundary_t > config_.ignore_max_st_min_t
    /\ Len(obstacles) = 2
    /\ \A i \in 1..Len(obstacles) :
         /\ ~obstacles[i].is_virtual /\ ~obstacles[i].is_static
         /\ obstacles[i].min_t < config_.min_boundary_t
         /\ obstacles[i].bottom_left_s - obstacles[i].bottom_right_s <= 0
         /\ obstacles[i].min_t < config_.ignore_max_st_min_t
         /\ obstacles[i].min_s > config_.ignore_min_st_min_s

\* C10: with wait_time_sec >= timeout_sec the scan and the debounce update are
\* performed although distance_to_go >= max_valid_stop_distance, and the 5th
\* of 5 consecutive such clear samples reports creep done.
Theorem_C10 ==
    ( /\ call.op = "CheckCreepDone"
      /\ call.wait_time_sec >= call.timeout_sec
      /\ (call.stop_sign_overlap_end_s + 5) - adc_end_s
             >= config_.max_valid_stop_distance )
    => /\ call.counter_updated =
              IF ScanObstacles(obstacles, 1, config_)
              THEN call.counter_before + 1 ELSE 0
       /\ creep_clear_counter_ = call.counter_updated % 5
       /\ (clear_run_far /\ clear_run = 5) => call.creep_done

Witness_C10 ==
    /\ call.op = "CheckCreepDone"
    /\ call.wait_time_sec = 20
    /\ call.timeout_sec = 15
    /\ call.distance = 500
    /\ config_.max_valid_stop_distance = 20
    /\ clear_run_far
    /\ clear_run = 5
    /\ call.creep_done

(***************************************************************************)
(* Properties of Process, under SpecProcess.                               *)
(***************************************************************************)

\* C5: when the stop-sign overlap id is non-empty and resolves on the
\* reference line, stop_line_s is that overlap's end_s, whatever traffic-light
\* overlaps are present.
Theorem_C5 ==
    (call.op = "Process" /\ stop_sign_overlap_id # "") =>
      \A i \in 1..Len(overlaps) :
        overlaps[i].object_id = stop_sign_overlap_id =>
          call.stop_line_s = overlaps[i].end_s

Witness_C5 ==
    /\ call.op = "Process"
    /\ stop_sign_overlap_id # ""
    /\ Len(overlaps) = 2
    /\ overlaps[2].object_id = stop_sign_overlap_id
    /\ overlaps[2].end_s = 1000
    /\ Len(current_traffic_light_overlaps) = 2
    /\ current_traffic_light_overlaps[1].end_s = 2000
    /\ call.stop_line_s = 1000

\* C6: when the stop-sign overlap id is empty and at least one traffic-light
\* overlap is present, stop_line_s is the end_s of the first traffic-light
\* overlap of the list.
Theorem_C6 ==
    ( /\ call.op = "Process"
      /\ stop_sign_overlap_id = ""
      /\ Len(current_traffic_light_overlaps) >= 1 )
    => call.stop_line_s = current_traffic_light_overlaps[1].end_s

Witness_C6 ==
    /\ call.op = "Process"
    /\ stop_sign_overlap_id = ""
    /\ Len(current_traffic_light_overlaps) = 2
    /\ current_traffic_light_overlaps[1].end_s = 1000
    /\ current_traffic_light_overlaps[2].end_s = 2000
    /\ overlaps # <<>>
    /\ call.stop_line_s = 1000

\* C7: when the stop-sign overlap id is non-empty and does not resolve on the
\* reference line, stop_line_s stays 0, the traffic-light overlaps are not
\* consulted, the call leaves the frame, the obstacle set and the decision set
\* as they were, and it returns OK.
Theorem_C7 ==
    [][ ( /\ call'.op = "Process"
          /\ stop_sign_overlap_id' # ""
          /\ \A i \in 1..Len(overlaps') :
               overlaps'[i].object_id # stop_sign_overlap_id' )
        => /\ call'.stop_line_s = 0
           /\ call'.status = "OK"
           /\ obstacles' = obstacles
           /\ decisions' = decisions
           /\ frame_obstacles' = frame_obstacles ]_vars

Witness_C7 ==
    /\ call.op = "Process"
    /\ stop_sign_overlap_id # ""
    /\ overlaps # <<>>
    /\ \A i \in 1..Len(overlaps) : overlaps[i].object_id # stop_sign_overlap_id
    /\ Len(current_traffic_light_overlaps) >= 1
    /\ current_traffic_light_overlaps[1].end_s > 0
    /\ call.stop_line_s = 0
    /\ call.build = "skipped"
    /\ call.status = "OK"

\* C8: a call of Process whose stop line is not positive (no stop-sign id and
\* no traffic-light overlap, or an overlap whose end_s is not positive) leaves
\* the frame, the obstacle set and the decision set unchanged; a call that
\* changes any of them has stop_line_s > 0.
Theorem_C8 ==
    [][ call'.op = "Process" =>
          LET tls == current_traffic_light_overlaps
              not_positive ==
                \/ stop_sign_overlap_id = "" /\ tls = <<>>
                \/ stop_sign_overlap_id = "" /\ tls # <<>> /\ tls[1].end_s <= 0
                \/ /\ stop_sign_overlap_id # ""
                   /\ \A i \in 1..Len(overlaps) :
                        overlaps[i].object_id = stop_sign_overlap_id =>
                          overlaps[i].end_s <= 0
          IN  /\ (not_positive \/ call'.stop_line_s <= 0) =>
                   /\ obstacles' = obstacles
                   /\ decisions' = decisions
                   /\ frame_obstacles' = frame_obstacles
              /\ (obstacles' # obstacles \/ decisions' # decisions
                    \/ frame_obstacles' # frame_obstacles) =>
                   call'.stop_line_s > 0 ]_vars

Witness_C8 ==
    /\ call.op = "Process"
    /\ stop_sign_overlap_id = ""
    /\ current_traffic_light_overlaps # <<>>
    /\ current_traffic_light_overlaps[1].end_s <= 0
    /\ call.stop_line_s <= 0
    /\ call.build = "skipped"
    /\ obstacles # <<>>
    /\ decisions = {}


\* C11: a successful build for stop_line_s places the virtual obstacle
\* "CREEP_SS" at creep_stop_s = stop_line_s + 0.5 m, takes the stop point and
\* heading from the path at stop_s = creep_stop_s - stop_distance, and attaches
\* under tag "Creeper", keyed by the obstacle's id, exactly one stop decision
\* with reason CREEPER, distance_s = -stop_distance and stop point z = 0
\* (stop line 100.0 m, stop_distance 1.0 m: 100.5 m, 99.5 m, -1.0 m).
Theorem_C11 ==
    (call.op = "Process" /\ call.build = "built") =>
      LET stop_wall == obstacles[Len(obstacles)]
          creep_stop_s == call.stop_line_s + 5
          stop_s == creep_stop_s - config_.stop_distance
          attached == {d \in decisions : d.id = stop_wall.id}
      IN  /\ stop_wall.id = "CREEP_SS"
          /\ stop_wall.is_virtual
          /\ stop_wall.s = creep_stop_s
          /\ stop_wall.id \in frame_obstacles
          /\ Cardinality(attached) = 1
          /\ \A d \in attached :
               /\ d.tag = "Creeper"
               /\ d.stop.reason_code = "STOP_REASON_CREEPER"
               /\ d.stop.distance_s = 0 - config_.stop_distance
               /\ d.stop.stop_point.x = GetReferencePoint(path_length, stop_s).x
               /\ d.stop.stop_point.y = GetReferencePoint(path_length, stop_s).y
               /\ d.stop.stop_point.z = 0
               /\ d.stop.stop_heading = GetReferencePoint(path_length, stop_s).heading
               /\ (call.stop_line_s = 1000 /\ config_.stop_distance = 10) =>
                    /\ stop_wall.s = 1005
                    /\ d.stop.stop_point.x = 995
                    /\ d.stop.distance_s = -10

Witness_C11 ==
    /\ call.op = "Process"
    /\ call.build = "built"
    /\ call.stop_line_s = 1000
    /\ Len(obstacles) = 3
    /\ obstacles[3].s = 1005
    /\ \E d \in decisions :
         /\ d.id = "CREEP_SS"
         /\ d.stop.distance_s = -10
         /\ d.stop.stop_point.x = 995

\* C12: BuildStopDecision is all-or-nothing: a call of Process whose build
\* fails (the creation or the registration of the virtual obstacle) adds no
\* stop decision and leaves the obstacle set and the frame as they were, so
\* the frame never holds a virtual obstacle the obstacle set does not track.
Counterexample_C12 ==
    [][ (call'.op = "Process"
           /\ call'.build \in {"create_failed", "register_failed"})
        => /\ decisions' = decisions
           /\ obstacles' = obstacles
           /\ frame_obstacles' = frame_obstacles
           /\ \A id \in frame_obstacles' :
                \E i \in 1..Len(obstacles') : obstacles'[i].id = id ]_vars

\* C13: Process returns OK on every call, a call whose build fails included;
\* the failed build adds no stop decision.
Theorem_C13 ==
    [][ call'.op = "Process" =>
          /\ call'.status = "OK"
          /\ call'.build \in {"create_failed", "register_failed"} =>
               decisions' = decisions ]_vars

Witness_C13 ==
    /\ call.op = "Process"
    /\ call.build = "register_failed"
    /\ call.stop_line_s > 0
    /\ call.status = "OK"
    /\ decisions = {}


(***************************************************************************)
(* The obstacle scan of CheckCreepDone, under Spec.                        *)
(***************************************************************************)

\* C16: in a gate-satisfied call the sample is blocked exactly when some
\* obstacle is neither virtual nor static, has min_t < min_boundary_t and does
\* not match the benign exception; virtual and static obstacles never block,
\* and the outcome is the same for every order of the obstacles.
Theorem_C16 ==
    ( /\ call.op = "CheckCreepDone"
      /\ \/ call.distance < config_.max_valid_stop_distance
         \/ call.wait_time_sec >= call.timeout_sec )
    => LET blocking(o) ==
               /\ ~o.is_virtual
               /\ ~o.is_static
               /\ o.min_t < config_.min_boundary_t
               /\ ~ ( /\ o.bottom_left_s - o.bottom_right_s <= 0
                      /\ o.min_t < config_.ignore_max_st_min_t
                      /\ o.min_s > config_.ignore_min_st_min_s )
           blocked == \E i \in 1..Len(obstacles) : blocking(obstacles[i])
       IN  /\ call.all_far_away = ~blocked
           /\ call.counter_updated = IF blocked THEN 0 ELSE call.counter_before + 1
           /\ \A p \in Permutations(1..Len(obstacles)) :
                ScanObstacles([i \in 1..Len(obstacles) |-> obstacles[p[i]]],
                              1, config_) = ~blocked

Witness_C16 ==
    /\ call.op = "CheckCreepDone"
    /\ call.gate
    /\ ~call.all_far_away
    /\ creep_clear_counter_ = 0
    /\ call.counter_before = 3
    /\ Len(obstacles) = 2
    /\ ~obstacles[1].is_virtual /\ ~obstacles[1].is_static
    /\ obstacles[1].min_t < config_.min_boundary_t
    /\ IgnoredOnReferenceLine(obstacles[1], config_)
    /\ ~obstacles[2].is_virtual /\ ~obstacles[2].is_static
    /\ obstacles[2].min_t < config_.min_boundary_t
    /\ ~IgnoredOnReferenceLine(obstacles[2], config_)


(***************************************************************************)
(* The debounce over the sequence of samples, under SpecDebounce.          *)
(***************************************************************************)

\* C17: a call returns true exactly when its own sample is gate-satisfied and
\* clear and the 5 most recent gate-satisfied samples, this one included, are
\* all clear with no creep-done among the previous 4 of them; a blocked call
\* and a call that misses the gate never return true.
Theorem_C17 ==
    call.op = "CheckCreepDone"
    => /\ call.creep_done
          <=> /\ call.gate
              /\ call.all_far_away
              /\ Len(recent) = 5
              /\ \A i \in 1..5 : recent[i].clear
              /\ \A i \in 1..4 : ~recent[i].done
       /\ ~call.gate => ~call.creep_done
       /\ ~call.all_far_away => ~call.creep_done
       /\ call.gate => /\ recent # <<>>
                       /\ recent[Len(recent)] = [clear |-> call.all_far_away,
                                                 done |-> call.creep_done]

Witness_C17 ==
    /\ call.op = "CheckCreepDone"
    /\ call.creep_done
    /\ call.distance >= config_.max_valid_stop_distance
    /\ Len(obstacles) = 2
    /\ Len(recent) = 5
    /\ \A i \in 1..5 : recent[i].clear
    /\ \A i \in 1..4 : ~recent[i].done


(***************************************************************************)
(* Progress of the debounce, under SpecLive.                               *)
(***************************************************************************)

\* C18: if from some call onward every sample is gate-satisfied and clear,
\* creep done is reported again and again, for ever; among any 5 successive
\* clear samples exactly one reports creep done, and none does between a
\* blocked sample and the fifth clear sample after it.
Theorem_C18 ==
    /\ [] ( /\ ( Len(recent) = 5 /\ \A i \in 1..5 : recent[i].clear )
               => Cardinality({i \in 1..5 : recent[i].done}) = 1
            /\ \A k \in 1..Len(recent) :
                 ~recent[k].clear
                 => \A i \in k..Len(recent) : ~recent[i].done )
    /\ ( <>[][ call'.op = "CheckCreepDone"
                 => (call'.gate /\ call'.all_far_away) ]_vars )
       => []<>( call.op = "CheckCreepDone" /\ call.creep_done )

Witness_C18 ==
    /\ call.op = "CheckCreepDone"
    /\ call.all_far_away
    /\ ~call.creep_done
    /\ creep_clear_counter_ = 3
    /\ Len(recent) = 5
    /\ \A i \in 1..5 : recent[i].clear
    /\ recent[2].done


(***************************************************************************)
(* The two entry points together, under SpecBuild and SpecCycle.           *)
(***************************************************************************)

\* C14: a successful build with the stop_line_s, path and configuration of an
\* earlier successful build gives the same virtual obstacle id, the same wall
\* position and the same stop point, heading and distance, whatever the
\* counter was at either build and whatever CheckCreepDone calls lie between.
Theorem_C14 ==
    ( /\ call.op = "Process"
      /\ call.build = "built"
      /\ ref_build # NoBuild
      /\ ref_build.stop_line_s = call.stop_line_s
      /\ ref_build.path_length = path_length
      /\ ref_build.creep_config = config_ )
    => LET stop_wall == obstacles[Len(obstacles)]
           stops == {d.stop : d \in {e \in decisions : e.id = stop_wall.id}}
       IN  /\ stop_wall.id = ref_build.id
           /\ stop_wall.s = ref_build.s
           /\ Cardinality(stops) = 1
           /\ stops = ref_build.stops

Witness_C14 ==
    /\ call.op = "Process"
    /\ call.build = "built"
    /\ ref_build # NoBuild
    /\ ref_build.stop_line_s = call.stop_line_s
    /\ ref_build.path_length = path_length
    /\ ref_build.counter = 0
    /\ creep_clear_counter_ = 4
    /\ Len(obstacles) = 1

\* C19: Process leaves the counter and the sample history as they are,
\* whether it builds, fails or skips; CheckCreepDone leaves the obstacles, the
\* decisions and the frame as they are; and with Process calls between the
\* CheckCreepDone calls a sample is blocked by the perceived obstacles alone
\* and creep done is reported exactly on the fifth clear sample.
Theorem_C19 ==
    /\ [][ /\ call'.op = "Process"
              => /\ creep_clear_counter_' = creep_clear_counter_
                 /\ recent' = recent
           /\ call'.op = "CheckCreepDone"
              => /\ obstacles' = obstacles
                 /\ decisions' = decisions
                 /\ frame_obstacles' = frame_obstacles ]_vars
    /\ [] ( call.op = "CheckCreepDone"
            => /\ call.all_far_away
                  = ( call.gate /\ ScanObstacles(SelectSeq(obstacles, NotStopWall),
                                                 1, config_) )
               /\ call.creep_done
                  <=> /\ call.all_far_away
                      /\ Len(recent) = 5
                      /\ \A i \in 1..5 : recent[i].clear
                      /\ \A i \in 1..4 : ~recent[i].done )

Witness_C19 ==
    /\ call.op = "CheckCreepDone"
    /\ call.creep_done
    /\ Len(obstacles) = 2
    /\ obstacles[1].id = VirtualObstacleId
    /\ NotStopWall(obstacles[2])
    /\ \E d \in decisions : d.id = VirtualObstacleId
    /\ recent[4].clear /\ ~recent[4].done


(***************************************************************************)
(* The static counter under the callers of two events, under SpecShared.   *)
(***************************************************************************)

\* C15: the one counter serves both events.  While their calls only
\* alternate, the counter is the run of clear samples of the two events
\* merged, so the clear samples of one advance and the blocked samples of one
\* reset the count of the other; under any schedule creep done is reported
\* only after 5 clear samples of the two events together, whatever the
\* reporting event's own run is.
Theorem_C15 ==
    /\ ( ~samples.overlapped /\ \A e \in Events : thread[e].pc = "idle" )
       => creep_clear_counter_ = samples.merged_run
    /\ \A e \in Events :
         ( thread[e].pc = "reset" \/ thread[e].creep_done )
         => samples.clear_total >= 5

\* creep done returned to B by a call whose own sample was blocked
Witness_C15 ==
    /\ thread["B"].creep_done
    /\ samples.own_run["B"] = 0
    /\ samples.own_run["A"] >= 1
    /\ samples.overlapped

====
